---- MODULE Spec2Model ----
(***************************************************************************)
(* Model of the session reconstruction parser of claude-share (parser.go). *)
(*                                                                         *)
(* A string is modelled as a finite sequence of atoms (TLA+ strings): the  *)
(* empty Go string is <<>>, concatenation is \o, and strings.Contains of a *)
(* marker is the presence of the marker atom.  A JSON value that the code  *)
(* probes with json.Unmarshal is modelled by its shape together with the   *)
(* decoded fields, so that every probe succeeds or fails as in the code.   *)
(***************************************************************************)
EXTENDS Integers, Sequences, FiniteSets, TLC

VARIABLES pc, opts, file, f, seq, userMsgs, assistantGroups, assistantIDs,
          all, msgs, err,
          hpc, hfile, hf, seen, order, results, herr,
          rpc, messages, doc,
          xpc, args, sessionPath, sessions, meta, htmlStr, stdout, outFile,
          stderr, exit

\* The state of a call of ParseSession.
svars == <<pc, opts, file, f, seq, userMsgs, assistantGroups, assistantIDs,
           all, msgs, err>>

\* The state of a call of ParseHistory.
hvars == <<hpc, hfile, hf, seen, order, results, herr>>

\* The state of a call of RenderHTML.
rvars == <<rpc, messages, doc>>

\* The state of a run of the export command.
xvars == <<xpc, args, sessionPath, sessions, meta, htmlStr, stdout, outFile,
           stderr, exit>>

vars == <<svars, hvars, rvars, xvars>>

\* Longest session log scanned under Spec.
MaxLines == 4
\* Longest session log scanned under SpecUserRows.
MaxUserLines == 2
\* Longest session log scanned under SpecToolResults and SpecAssistantRows.
MaxContentLines == 2
\* Longest history log scanned under SpecHistory.
MaxHistoryLines == 3
\* Longest session log and longest history log scanned under SpecCalls.
MaxCallLines == 2
\* The longest session log under SpecGrouped.
MaxGroupedLines == 4
\* The longest message list handed to RenderHTML under SpecRender.
MaxRenderMessages == 2
\* The longest session log and the longest history log under SpecExport.
MaxExportLines == 2

-----------------------------------------------------------------------------
(* Strings *)

EmptyStr == <<>>

\* strings.Contains(s, marker)
Contains(s, marker) == \E i \in 1..Len(s) : s[i] = marker

RECURSIVE Join(_, _)
\* strings.Join(parts, sep)
Join(parts, sep) ==
    IF Len(parts) = 0 THEN EmptyStr
    ELSE IF Len(parts) = 1 THEN parts[1]
    ELSE parts[1] \o sep \o Join(Tail(parts), sep)

\* The marker test of lines 253 and 279, with one disjunct missing.
hasMarkerNoReminder(s) ==
    \/ Contains(s, "<command-name>")
    \/ Contains(s, "<local-command")

\* The three marker substrings that denote synthetic command/system content.
hasMarker(s) ==
    \/ Contains(s, "<command-name>")
    \/ Contains(s, "<local-command")
    \/ Contains(s, "<system-reminder>")

-----------------------------------------------------------------------------
(* Values *)

\* ContentBlock, with Go's zero values for the fields a kind leaves unset.
ContentBlock(type, text, toolName, toolInput, toolUseID, isError) ==
    [Type |-> type, Text |-> text, ToolName |-> toolName,
     ToolInput |-> toolInput, ToolUseID |-> toolUseID, IsError |-> isError]

TextBlock(text) == ContentBlock("text", text, "", "", "", FALSE)
ThinkingBlock(text) == ContentBlock("thinking", text, "", "", "", FALSE)

\* Message
Message(role, blocks, ts) == [Role |-> role, Blocks |-> blocks, Timestamp |-> ts]

\* The nil *Message is the empty sequence; a non-nil one is <<msg>>.
NoMsg == <<>>

-----------------------------------------------------------------------------
(* extractToolResultContent *)

RECURSIVE nonEmptyTexts(_)
\* The loop of lines 349-353: the text of every item whose text is non-empty.
nonEmptyTexts(arr) ==
    IF Len(arr) = 0 THEN <<>>
    ELSE (IF arr[1].text # EmptyStr THEN <<arr[1].text>> ELSE <<>>)
         \o nonEmptyTexts(Tail(arr))

\* raw is [shape, str, items, raw]: shape "absent" is a nil RawMessage,
\* "string" a JSON string, "items" an array of objects, "other" anything else.
extractToolResultContent(raw) ==
    IF raw.shape = "absent" THEN EmptyStr
    ELSE IF raw.shape = "string" THEN raw.str
    ELSE IF raw.shape = "items" THEN Join(nonEmptyTexts(raw.items), <<"\n">>)
    ELSE raw.raw

-----------------------------------------------------------------------------
(* parseUserRow *)

\* One iteration of the loop of lines 265-284, with the includeTools test
\* of the tool_result case missing.
userItemBlocksUngated(b, o) ==
    IF b.type = "tool_result"
    THEN <<ContentBlock("tool_result", extractToolResultContent(b.content),
                        "", "", b.tool_use_id, b.is_error)>>
    ELSE IF b.type = "text"
    THEN IF hasMarker(b.text) THEN <<>> ELSE <<TextBlock(b.text)>>
    ELSE <<>>

\* One iteration of the loop of lines 265-284: the blocks item b appends.
userItemBlocks(b, o) ==
    IF b.type = "tool_result"
    THEN IF ~o.IncludeTools THEN <<>>
         ELSE <<ContentBlock("tool_result", extractToolResultContent(b.content),
                             "", "", b.tool_use_id, b.is_error)>>
    ELSE IF b.type = "text"
    THEN IF hasMarker(b.text) THEN <<>> ELSE <<TextBlock(b.text)>>
    ELSE <<>>

RECURSIVE userBlocksFrom(_, _)
\* The iterations of the loop of lines 265-284 over the items still to visit.
userBlocksFrom(blocks, o) ==
    IF Len(blocks) = 0 THEN <<>>
    ELSE userItemBlocks(blocks[1], o) \o userBlocksFrom(Tail(blocks), o)

\* The loop of lines 265-284 treating a marker in any text item as the
\* string case treats it: the whole message is given up.
userBlocksWholeMessage(blocks, o) ==
    IF \E i \in 1..Len(blocks) :
          blocks[i].type = "text" /\ hasMarker(blocks[i].text)
    THEN <<>>
    ELSE userBlocksFrom(blocks, o)

\* The loop of lines 265-284 over the decoded items.
userBlocks(blocks, o) == userBlocksFrom(blocks, o)

\* Lines 286-289 without the emptiness test.
nilIfNoBlocksNever(msg) == <<msg>>

\* Lines 286-289: a message without blocks is nil.
nilIfNoBlocks(msg) == IF Len(msg.Blocks) = 0 THEN NoMsg ELSE <<msg>>

\* Lines 251-258 with the marker test one marker short.
userStringMsgNoReminder(row, s) ==
    IF hasMarkerNoReminder(s) THEN NoMsg
    ELSE <<Message("user", <<TextBlock(s)>>, row.timestamp)>>

\* Lines 251-258: content that decodes as a string.
userStringMsg(row, s) ==
    IF hasMarker(s) THEN NoMsg
    ELSE <<Message("user", <<TextBlock(s)>>, row.timestamp)>>

\* row.message is [shape, id, content]: shape "absent" is a nil RawMessage,
\* "bad" a value that does not decode as apiMessage, "ok" one that does
\* (JSON null decodes, leaving id empty and content nil).
\* content is [shape, str, items]: "absent" nil, "null" JSON null (decodes
\* as the string "" and as a nil slice), "string", "items", "other".
parseUserRow(row, o) ==
    IF row.isMeta \/ row.message.shape = "absent" THEN NoMsg
    ELSE IF row.message.shape = "bad" THEN NoMsg
    ELSE LET c == row.message.content IN
         IF c.shape = "string" THEN userStringMsg(row, c.str)
         ELSE IF c.shape = "null" THEN userStringMsg(row, EmptyStr)
         ELSE IF c.shape = "items"
         THEN nilIfNoBlocks(Message("user", userBlocks(c.items, o), row.timestamp))
         ELSE NoMsg

-----------------------------------------------------------------------------
(* extractAssistantBlocks *)

\* Lines 305-315 with the includeThinking test missing.
thinkingItemBlocksUngated(b, o) ==
    LET text == IF b.thinking = EmptyStr THEN b.text ELSE b.thinking IN
    IF text # EmptyStr THEN <<ThinkingBlock(text)>> ELSE <<>>

\* Lines 305-315 without the fallback of lines 310-312.
thinkingItemBlocksNoFallback(b, o) ==
    IF ~o.IncludeThinking THEN <<>>
    ELSE IF b.thinking # EmptyStr THEN <<ThinkingBlock(b.thinking)>> ELSE <<>>

\* Lines 305-315: the thinking case.
thinkingItemBlocks(b, o) ==
    IF ~o.IncludeThinking THEN <<>>
    ELSE LET text == IF b.thinking = EmptyStr THEN b.text ELSE b.thinking IN
         IF text # EmptyStr THEN <<ThinkingBlock(text)>> ELSE <<>>

\* Lines 316-329: the tool_use case.  b.input is [present, raw].
toolUseItemBlocks(b, o) ==
    IF ~o.IncludeTools THEN <<>>
    ELSE <<ContentBlock("tool_use", EmptyStr, b.name,
                        IF b.input.present THEN b.input.raw ELSE "{}",
                        b.id, FALSE)>>

\* One iteration of the loop of lines 299-331.
assistantItemBlocks(b, o) ==
    IF b.type = "text"
    THEN IF b.text # EmptyStr THEN <<TextBlock(b.text)>> ELSE <<>>
    ELSE IF b.type = "thinking" THEN thinkingItemBlocks(b, o)
    ELSE IF b.type = "tool_use" THEN toolUseItemBlocks(b, o)
    ELSE <<>>

RECURSIVE assistantBlocks(_, _)
\* The loop of lines 299-331 over the decoded items.
assistantBlocks(blocks, o) ==
    IF Len(blocks) = 0 THEN <<>>
    ELSE assistantItemBlocks(blocks[1], o) \o assistantBlocks(Tail(blocks), o)

\* raw is a content value as in parseUserRow; only an array (or null, a nil
\* slice) decodes.
extractAssistantBlocks(raw, o) ==
    IF raw.shape = "items" THEN assistantBlocks(raw.items, o) ELSE <<>>

-----------------------------------------------------------------------------
(* Session log lines (sessionRow and the values nested in it) *)

RawAbsent == [shape |-> "absent", str |-> EmptyStr, items |-> <<>>, raw |-> EmptyStr]
RawString(s) == [shape |-> "string", str |-> s, items |-> <<>>, raw |-> EmptyStr]
RawItems(items) == [shape |-> "items", str |-> EmptyStr, items |-> items, raw |-> EmptyStr]
RawOther(raw) == [shape |-> "other", str |-> EmptyStr, items |-> <<>>, raw |-> raw]

NoInput == [present |-> FALSE, raw |-> ""]
Input(raw) == [present |-> TRUE, raw |-> raw]

\* contentBlockRaw
Item(type, text, thinking, id, name, input, toolUseID, content, isError) ==
    [type |-> type, text |-> text, thinking |-> thinking, id |-> id,
     name |-> name, input |-> input, tool_use_id |-> toolUseID,
     content |-> content, is_error |-> isError]

TextItem(text) == Item("text", text, EmptyStr, "", "", NoInput, "", RawAbsent, FALSE)
ThinkingItem(thinking, text) ==
    Item("thinking", text, thinking, "", "", NoInput, "", RawAbsent, FALSE)
ToolUseItem(id, name, input) ==
    Item("tool_use", EmptyStr, EmptyStr, id, name, input, "", RawAbsent, FALSE)
ToolResultItem(toolUseID, content, isError) ==
    Item("tool_result", EmptyStr, EmptyStr, "", "", NoInput, toolUseID, content, isError)
OtherItem(type) == Item(type, EmptyStr, EmptyStr, "", "", NoInput, "", RawAbsent, FALSE)

AbsentContent == [shape |-> "absent", str |-> EmptyStr, items |-> <<>>]
NullContent == [shape |-> "null", str |-> EmptyStr, items |-> <<>>]
OtherContent == [shape |-> "other", str |-> EmptyStr, items |-> <<>>]
StrContent(s) == [shape |-> "string", str |-> s, items |-> <<>>]
ItemsContent(items) == [shape |-> "items", str |-> EmptyStr, items |-> items]

\* apiMessage, and the two ways a row can lack one
Payload(id, content) == [shape |-> "ok", id |-> id, content |-> content]
NoPayload == [shape |-> "absent", id |-> "", content |-> AbsentContent]
BadPayload == [shape |-> "bad", id |-> "", content |-> AbsentContent]

\* sessionRow; json is whether the line decodes as one at all
Row(type, isMeta, ts, message) ==
    [json |-> TRUE, type |-> type, isMeta |-> isMeta, timestamp |-> ts,
     message |-> message]
BadLine ==
    [json |-> FALSE, type |-> "", isMeta |-> FALSE, timestamp |-> "",
     message |-> NoPayload]

\* The lines a session log is made of under Spec.
Lines ==
    { BadLine,
      Row("progress", FALSE, "T0", Payload("p1", StrContent(<<"tick">>))),
      Row("user", TRUE, "T1", Payload("u0", StrContent(<<"meta">>))),
      Row("user", FALSE, "T2", Payload("u1", StrContent(<<"hi">>))),
      Row("user", FALSE, "T3", Payload("u2",
          ItemsContent(<<ToolResultItem("t1", RawString(<<"out">>), FALSE)>>))),
      Row("assistant", FALSE, "T4", Payload("m1",
          ItemsContent(<<TextItem(<<"A">>)>>))),
      Row("assistant", FALSE, "T5", Payload("m1",
          ItemsContent(<<ToolUseItem("t1", "Read", Input("{p}"))>>))),
      Row("assistant", FALSE, "T6", Payload("m2",
          ItemsContent(<<ThinkingItem(<<"hmm">>, EmptyStr), TextItem(EmptyStr)>>))),
      Row("assistant", FALSE, "T7", NoPayload) }

-----------------------------------------------------------------------------
(* ParseSession *)

\* The scan state: st is [userMsgs, groups, ids, seq].

\* "continue" without the "seq++" before it.
skipRowNoInc(st) == st

\* Lines 169-170, 176-177, 186-187, 191-192, 196-197: seq++; continue.
skipRow(st) == [st EXCEPT !.seq = @ + 1]

\* The loop body without the seq++ of line 207.
nextRowNoInc(st) == st

\* Line 207: the seq++ that ends the loop body.
nextRow(st) == [st EXCEPT !.seq = @ + 1]

\* Lines 173-184 with the user case taking every kind but assistant.
rowKindLoose(row) ==
    IF row.type = "assistant" THEN "assistant" ELSE "user"

\* Lines 173-184: the switch on row.Type.
rowKind(row) ==
    IF row.type = "user" THEN "user"
    ELSE IF row.type = "assistant" THEN "assistant"
    ELSE "other"

\* Lines 180-182: a non-nil message is buffered with the current seq.
appendUser(st, m) ==
    IF m # NoMsg
    THEN [st EXCEPT !.userMsgs = Append(@, [msg |-> m[1], seq |-> st.seq])]
    ELSE st

\* Line 205 overwriting the group's blocks instead of appending to them.
appendBlocksOverwrite(old, new) == new

\* Line 205: grp.blocks = append(grp.blocks, blocks...)
appendBlocks(old, new) == old \o new

\* Line 203 outside the "if !exists".
firstSeenIDsAlways(ids, id, exists) == Append(ids, id)

\* Lines 200-204: the identifier is recorded when its group is created.
firstSeenIDs(ids, id, exists) == IF exists THEN ids ELSE Append(ids, id)

\* Lines 199-205 with the timestamp taken from every contributing line.
accumulateRestamp(st, id, ts, blocks) ==
    LET exists == id \in DOMAIN st.groups
        grp == IF exists THEN [st.groups[id] EXCEPT !.ts = ts]
               ELSE [blocks |-> <<>>, ts |-> ts, firstSeq |-> st.seq]
        grp2 == [grp EXCEPT !.blocks = appendBlocks(@, blocks)]
    IN [st EXCEPT
          !.groups = [k \in (DOMAIN st.groups) \cup {id} |->
                        IF k = id THEN grp2 ELSE st.groups[k]],
          !.ids = firstSeenIDs(st.ids, id, exists)]

\* Lines 199-205 with the position taken from every contributing line.
accumulateLastSeq(st, id, ts, blocks) ==
    LET exists == id \in DOMAIN st.groups
        grp == IF exists THEN [st.groups[id] EXCEPT !.firstSeq = st.seq]
               ELSE [blocks |-> <<>>, ts |-> ts, firstSeq |-> st.seq]
        grp2 == [grp EXCEPT !.blocks = appendBlocks(@, blocks)]
    IN [st EXCEPT
          !.groups = [k \in (DOMAIN st.groups) \cup {id} |->
                        IF k = id THEN grp2 ELSE st.groups[k]],
          !.ids = firstSeenIDs(st.ids, id, exists)]

\* Lines 199-205 with a line whose payload has no identifier left out.
accumulateSkipNoID(st, id, ts, blocks) ==
    IF id = "" THEN st
    ELSE
    LET exists == id \in DOMAIN st.groups
        grp == IF exists THEN st.groups[id]
               ELSE [blocks |-> <<>>, ts |-> ts, firstSeq |-> st.seq]
        grp2 == [grp EXCEPT !.blocks = appendBlocks(@, blocks)]
    IN [st EXCEPT
          !.groups = [k \in (DOMAIN st.groups) \cup {id} |->
                        IF k = id THEN grp2 ELSE st.groups[k]],
          !.ids = firstSeenIDs(st.ids, id, exists)]

\* Lines 199-205.
accumulate(st, id, ts, blocks) ==
    LET exists == id \in DOMAIN st.groups
        grp == IF exists THEN st.groups[id]
               ELSE [blocks |-> <<>>, ts |-> ts, firstSeq |-> st.seq]
        grp2 == [grp EXCEPT !.blocks = appendBlocks(@, blocks)]
    IN [st EXCEPT
          !.groups = [k \in (DOMAIN st.groups) \cup {id} |->
                        IF k = id THEN grp2 ELSE st.groups[k]],
          !.ids = firstSeenIDs(st.ids, id, exists)]

\* Lines 167-207 with the group looked up and created before the test for
\* zero blocks.
processLineGroupFirst(row, st, o) ==
    IF ~row.json THEN skipRow(st)
    ELSE IF rowKind(row) = "user"
    THEN IF row.isMeta THEN skipRow(st)
         ELSE nextRow(appendUser(st, parseUserRow(row, o)))
    ELSE IF rowKind(row) = "assistant"
    THEN IF row.message.shape = "absent" THEN skipRow(st)
         ELSE IF row.message.shape = "bad" THEN skipRow(st)
         ELSE LET blocks == extractAssistantBlocks(row.message.content, o) IN
              IF Len(blocks) = 0
              THEN skipRow(accumulate(st, row.message.id, row.timestamp, blocks))
              ELSE nextRow(accumulate(st, row.message.id, row.timestamp, blocks))
    ELSE nextRow(st)

\* Lines 167-207: the loop body for one scanned line.
processLine(row, st, o) ==
    IF ~row.json THEN skipRow(st)
    ELSE IF rowKind(row) = "user"
    THEN IF row.isMeta THEN skipRow(st)
         ELSE nextRow(appendUser(st, parseUserRow(row, o)))
    ELSE IF rowKind(row) = "assistant"
    THEN IF row.message.shape = "absent" THEN skipRow(st)
         ELSE IF row.message.shape = "bad" THEN skipRow(st)
         ELSE LET blocks == extractAssistantBlocks(row.message.content, o) IN
              IF Len(blocks) = 0 THEN skipRow(st)
              ELSE nextRow(accumulate(st, row.message.id, row.timestamp, blocks))
    ELSE nextRow(st)

RECURSIVE groupEntries(_, _)
\* Lines 221-229: one entry per first-seen identifier whose group has blocks.
groupEntries(ids, groups) ==
    IF Len(ids) = 0 THEN <<>>
    ELSE LET grp == groups[ids[1]] IN
         (IF Len(grp.blocks) > 0
          THEN <<[msg |-> Message("assistant", grp.blocks, grp.ts),
                  seq |-> grp.firstSeq]>>
          ELSE <<>>)
         \o groupEntries(Tail(ids), groups)

\* Lines 217-229: the user entries followed by the group entries.
mergeAll(users, ids, groups) == users \o groupEntries(ids, groups)

\* Line 230 with the comparison turned around.
sortLessDescending(a, b) == a.seq > b.seq

\* Line 230: the comparison handed to sort.Slice.
sortLess(a, b) == a.seq < b.seq

RemoveAt(s, i) == SubSeq(s, 1, i - 1) \o SubSeq(s, i + 1, Len(s))

\* Line 230 left out: the merged entries stay as they were appended.
sortResultsNone(s) == {s}

RECURSIVE sortResults(_)
\* sort.Slice is not stable: every arrangement of s in which no element is
\* less than one before it is a possible result.
sortResults(s) ==
    IF Len(s) = 0 THEN {<<>>}
    ELSE UNION { { <<s[i]>> \o r : r \in sortResults(RemoveAt(s, i)) } :
                 i \in { i \in 1..Len(s) :
                           \A j \in 1..Len(s) : ~sortLess(s[j], s[i]) } }

\* Lines 232-235.
messagesOf(a) == [i \in 1..Len(a) |-> a[i].msg]

NoGroups == [id \in {} |-> [blocks |-> <<>>, ts |-> "", firstSeq |-> 0]]

\* SessionSummary
SessionSummary(id, project, firstPrompt, ts) ==
    [ID |-> id, Project |-> project, FirstPrompt |-> firstPrompt, Timestamp |-> ts]

\* Line 85: the empty map of summaries.
NoSummaries == [id \in {} |-> SessionSummary("", "", EmptyStr, 0)]

\* SessionMeta
SessionMeta(sessionID, project, date, messageCount, firstPrompt) ==
    [SessionID |-> sessionID, Project |-> project, Date |-> date,
     MessageCount |-> messageCount, FirstPrompt |-> firstPrompt]

\* The zero SessionMeta.
NoMeta == SessionMeta("", EmptyStr, EmptyStr, 0, EmptyStr)

\* No document: the "" RenderHTML returns with an error.
NoDoc == [html |-> [Header |-> <<>>, Elements |-> <<>>], err |-> "none"]

\* The arguments of an export run before they are read.
NoArgs == [positional |-> <<>>, output |-> ""]

\* The deferred f.Close() left out.
closeFileLeak(h) == h

\* Lines 83 and 146: the deferred f.Close() runs when the call returns.
closeFile(h) == "closed"

\* Line 210 handing back what the scan had gathered so far.
scanErrorResultPartial(users, ids, groups) ==
    messagesOf(mergeAll(users, ids, groups))

\* Line 210: return nil, err.
scanErrorResult(users, ids, groups) == <<>>

\* Line 236 reporting a log without messages as an error.
returnErrOnEmpty(m) == IF Len(m) = 0 THEN "no messages" ELSE "none"

\* Line 236: return msgs, nil.
returnErr(m) == "none"

Init ==
    /\ pc = "open"
    /\ opts \in [IncludeTools : BOOLEAN, IncludeThinking : BOOLEAN]
    /\ file = <<>>
    /\ f = "none"
    /\ seq = 0
    /\ userMsgs = <<>>
    /\ assistantGroups = NoGroups
    /\ assistantIDs = <<>>
    /\ all = <<>>
    /\ msgs = <<>>
    /\ err = "none"
    /\ hpc = "open"
    /\ hfile = <<>>
    /\ hf = "none"
    /\ seen = NoSummaries
    /\ order = <<>>
    /\ results = <<>>
    /\ herr = "none"
    /\ rpc = "idle"
    /\ messages = <<>>
    /\ doc = NoDoc
    /\ xpc = "idle"
    /\ args = NoArgs
    /\ sessionPath = ""
    /\ sessions = <<>>
    /\ meta = NoMeta
    /\ htmlStr = NoDoc.html
    /\ stdout = <<>>
    /\ outFile = <<>>
    /\ stderr = <<>>
    /\ exit = "running"

\* Lines 142-146 and 158-164: os.Open succeeds.
Open ==
    /\ pc = "open"
    /\ pc' = "scan"
    /\ f' = "open"
    /\ UNCHANGED <<opts, file, seq, userMsgs, assistantGroups, assistantIDs,
                   all, msgs, err>>
    /\ UNCHANGED <<hvars, rvars, xvars>>

\* Lines 142-145: os.Open fails; nil and the wrapped error are returned.
OpenFail ==
    /\ pc = "open"
    /\ pc' = "done"
    /\ err' = "open session"
    /\ UNCHANGED <<opts, file, f, seq, userMsgs, assistantGroups, assistantIDs,
                   all, msgs>>
    /\ UNCHANGED <<hvars, rvars, xvars>>

\* Lines 166-208: scanner.Scan() delivers one more line, drawn from L.
ScanLine(L, max) ==
    /\ pc = "scan"
    /\ Len(file) < max
    /\ \E row \in L :
         LET st == processLine(row,
                     [userMsgs |-> userMsgs, groups |-> assistantGroups,
                      ids |-> assistantIDs, seq |-> seq], opts)
         IN /\ file' = Append(file, row)
            /\ userMsgs' = st.userMsgs
            /\ assistantGroups' = st.groups
            /\ assistantIDs' = st.ids
            /\ seq' = st.seq
    /\ UNCHANGED <<pc, opts, f, all, msgs, err>>
    /\ UNCHANGED <<hvars, rvars, xvars>>

\* Lines 209-211 and 146: the scanner stopped on a read error.
ScanError ==
    /\ pc = "scan"
    /\ pc' = "done"
    /\ err' = "scan"
    /\ msgs' = scanErrorResult(userMsgs, assistantIDs, assistantGroups)
    /\ f' = closeFile(f)
    /\ UNCHANGED <<opts, file, seq, userMsgs, assistantGroups, assistantIDs, all>>
    /\ UNCHANGED <<hvars, rvars, xvars>>

\* Lines 209-236 and 146: end of file; merge, sort, return.
ReturnMessages ==
    /\ pc = "scan"
    /\ \E sorted \in sortResults(mergeAll(userMsgs, assistantIDs, assistantGroups)) :
         /\ all' = sorted
         /\ msgs' = messagesOf(sorted)
         /\ err' = returnErr(messagesOf(sorted))
    /\ pc' = "done"
    /\ f' = closeFile(f)
    /\ UNCHANGED <<opts, file, seq, userMsgs, assistantGroups, assistantIDs>>
    /\ UNCHANGED <<hvars, rvars, xvars>>

Next ==
    \/ Open
    \/ OpenFail
    \/ ScanLine(Lines, MaxLines)
    \/ ScanError
    \/ ReturnMessages

Spec == Init /\ [][Next]_vars

\* The lines a session log is made of under SpecUserRows: user rows of
\* every content shape.
UserLines ==
    { Row("user", FALSE, "U1", Payload("u1", StrContent(<<"hi">>))),
      Row("user", FALSE, "U2", Payload("u2", StrContent(EmptyStr))),
      Row("user", FALSE, "U3", Payload("u3",
          StrContent(<<"x", "<command-name>", "y">>))),
      Row("user", FALSE, "U4", Payload("u4", StrContent(<<"<local-command", "z">>))),
      Row("user", FALSE, "U5", Payload("u5", StrContent(<<"<system-reminder>">>))),
      Row("user", FALSE, "U6", Payload("u6", NullContent)),
      Row("user", FALSE, "U7", Payload("u7",
          ItemsContent(<<TextItem(<<"a">>), TextItem(<<"<system-reminder>", "r">>),
                         ToolResultItem("t1", RawString(<<"out">>), FALSE),
                         TextItem(<<"b">>)>>))),
      Row("user", FALSE, "U8", Payload("u8", ItemsContent(<<TextItem(EmptyStr)>>))),
      Row("user", FALSE, "U9", Payload("u9",
          ItemsContent(<<ToolResultItem("t2",
                            RawItems(<<[type |-> "text", text |-> <<"l1">>],
                                       [type |-> "text", text |-> <<"l2">>]>>), TRUE),
                         TextItem(<<"c", "<command-name>">>)>>))),
      Row("user", FALSE, "U10", Payload("u10", ItemsContent(<<OtherItem("image")>>))),
      Row("user", FALSE, "U11", Payload("u11", OtherContent)),
      Row("user", FALSE, "U12", NoPayload),
      Row("user", FALSE, "U13", BadPayload),
      Row("user", TRUE, "U14", Payload("u14", StrContent(<<"meta">>))) }

NextUserRows ==
    \/ Open
    \/ OpenFail
    \/ ScanLine(UserLines, MaxUserLines)
    \/ ScanError
    \/ ReturnMessages

SpecUserRows == Init /\ [][NextUserRows]_vars

-----------------------------------------------------------------------------
(* What a log is expected to produce, line by line *)

\* ParseSession returned its messages without an error.
Returned == pc = "done" /\ err = "none"

\* The message a line yields as a user line (NoMsg when it yields none).
UserMsgOf(row) ==
    IF row.json /\ row.type = "user" THEN parseUserRow(row, opts) ELSE NoMsg

\* The blocks a line yields as an assistant line.
AsstBlocksOf(row) ==
    IF row.json /\ row.type = "assistant" /\ row.message.shape = "ok"
    THEN extractAssistantBlocks(row.message.content, opts)
    ELSE <<>>

\* The lines (1-based) that contribute blocks to the group of identifier id.
GroupLines(id) ==
    { i \in 1..Len(file) : file[i].message.id = id /\ Len(AsstBlocksOf(file[i])) > 0 }

\* The identifiers whose group accumulates at least one block.
GroupIDs == { file[i].message.id : i \in { j \in 1..Len(file) : Len(AsstBlocksOf(file[j])) > 0 } }

\* The lines that yield a retained user message.
UserLinesKept == { i \in 1..Len(file) : UserMsgOf(file[i]) # NoMsg }

Min(S) == CHOOSE x \in S : \A y \in S : x <= y

\* The positions of the returned sequence that stem from line i (1-based).
Hits(i) == { k \in 1..Len(all) : all[k].seq = i - 1 }

RECURSIVE ConcatGroup(_, _)
\* The blocks of the lines n.. of the log that carry identifier id, in file order.
ConcatGroup(id, n) ==
    IF n > Len(file) THEN <<>>
    ELSE (IF file[n].message.id = id THEN AsstBlocksOf(file[n]) ELSE <<>>)
         \o ConcatGroup(id, n + 1)

-----------------------------------------------------------------------------
(* Claims *)

\* The roles of the returned messages.
RolesOf(m) == [i \in 1..Len(m) |-> m[i].Role]

\* A log that alternates user, assistant, user, assistant lines, each of
\* which yields at least one block, with distinct assistant identifiers.
Alternating ==
    /\ Len(file) = 4
    /\ UserMsgOf(file[1]) # NoMsg
    /\ Len(AsstBlocksOf(file[2])) > 0
    /\ UserMsgOf(file[3]) # NoMsg
    /\ Len(AsstBlocksOf(file[4])) > 0
    /\ file[2].message.id # file[4].message.id

\* C1: the returned messages are in strictly ascending order of sequence
\* number, a user message's number being the 0-based index of its line and an
\* assistant message's the index of the first line that contributed blocks to
\* its group; an alternating user/assistant log keeps its alternation.
C1_AscendingSequence ==
    Returned =>
      /\ msgs = messagesOf(all)
      /\ \A k \in 1..(Len(all) - 1) : all[k].seq < all[k + 1].seq
      /\ \A k \in 1..Len(all) :
           /\ all[k].seq \in 0..(Len(file) - 1)
           /\ LET i == all[k].seq + 1 IN
              /\ all[k].msg.Role \in {"user", "assistant"}
              /\ all[k].msg.Role = "user" => UserMsgOf(file[i]) = <<all[k].msg>>
              /\ all[k].msg.Role = "assistant" =>
                   /\ Len(AsstBlocksOf(file[i])) > 0
                   /\ i = Min(GroupLines(file[i].message.id))
      /\ Alternating => RolesOf(msgs) = <<"user", "assistant", "user", "assistant">>

\* C1 witness: an alternating log has been returned as four messages.
C1_Witness == Returned /\ Alternating /\ Len(msgs) = 4

\* C2: the assistant lines that share an identifier and yield blocks produce
\* exactly one assistant message, whose blocks are the lines' block lists
\* concatenated in file order, whatever lines sit between them.
C2_OneMessagePerIdentifier ==
    Returned =>
      \A id \in GroupIDs :
        LET mine == { k \in 1..Len(all) :
                        /\ all[k].msg.Role = "assistant"
                        /\ all[k].seq + 1 \in GroupLines(id) }
        IN /\ Cardinality(mine) = 1
           /\ \A k \in mine : all[k].msg.Blocks = ConcatGroup(id, 1)

\* C2 witness: two lines of one identifier, both yielding blocks, with a
\* retained user line and a line of another identifier between them.
C2_Witness ==
    /\ Returned
    /\ Len(file) = 4
    /\ file[1].message.id = file[4].message.id
    /\ Len(AsstBlocksOf(file[1])) > 0
    /\ Len(AsstBlocksOf(file[4])) > 0
    /\ UserMsgOf(file[2]) # NoMsg
    /\ Len(AsstBlocksOf(file[3])) > 0
    /\ file[3].message.id # file[1].message.id
    /\ Len(msgs) = 3

\* C3: the number of returned messages is the number of user lines that
\* yielded a retained message plus the number of identifiers whose group
\* accumulated at least one block.
C3_MessageCount ==
    Returned => Len(msgs) = Cardinality(UserLinesKept) + Cardinality(GroupIDs)

\* C3 witness: a log with a retained and a dropped user line and a group
\* fed by two lines.
C3_Witness ==
    /\ Returned
    /\ Cardinality(UserLinesKept) = 1
    /\ \E i \in 1..Len(file) :
         file[i].json /\ file[i].type = "user" /\ ~file[i].isMeta
         /\ UserMsgOf(file[i]) = NoMsg
    /\ \E id \in GroupIDs : Cardinality(GroupLines(id)) = 2
    /\ Len(msgs) = 2

\* The lines the scan ignores: malformed ones, kinds other than user and
\* assistant, and meta user lines.
Ignored(row) ==
    \/ ~row.json
    \/ row.type \notin {"user", "assistant"}
    \/ row.type = "user" /\ row.isMeta

RECURSIVE scanAll(_, _, _)
\* The scan state after the loop has run over the lines of log from state st.
scanAll(log, st, o) ==
    IF Len(log) = 0 THEN st
    ELSE scanAll(Tail(log), processLine(log[1], st, o), o)

\* The message sequences ParseSession can return for a log.
parseSession(log, o) ==
    LET st == scanAll(log, [userMsgs |-> <<>>, groups |-> NoGroups,
                            ids |-> <<>>, seq |-> 0], o)
    IN { messagesOf(r) : r \in sortResults(mergeAll(st.userMsgs, st.ids, st.groups)) }

RECURSIVE Strip(_)
\* The log without its ignored lines.
Strip(log) ==
    IF Len(log) = 0 THEN <<>>
    ELSE (IF Ignored(log[1]) THEN <<>> ELSE <<log[1]>>) \o Strip(Tail(log))

\* C4: the sequence counter is the number of lines scanned, whatever branch
\* each line took, and the returned messages are those of the log without
\* its malformed and ignored lines, in the same order.
C4_CounterCountsLines ==
    /\ pc \in {"scan", "done"} => seq = Len(file)
    /\ Returned => parseSession(Strip(file), opts) = {msgs}

\* C4 witness: a returned log in which a malformed line, an ignored kind, a
\* payload-less assistant line and a zero-block assistant line sit among
\* lines that produced messages.
C4_Witness ==
    /\ Returned
    /\ Len(file) = 4
    /\ UserMsgOf(file[1]) # NoMsg
    /\ ~file[2].json
    /\ Len(AsstBlocksOf(file[3])) > 0
    /\ file[4].json /\ file[4].type = "progress"
    /\ Len(msgs) = 2

\* C5: every returned message has at least one block.
C5_NoEmptyMessage ==
    Returned => \A k \in 1..Len(msgs) : Len(msgs[k].Blocks) >= 1

\* C5 witness: a user line and an assistant line that end with zero blocks
\* are missing from a non-empty result.
C5_Witness ==
    /\ Returned
    /\ \E i \in 1..Len(file) :
         /\ file[i].json /\ file[i].type = "user" /\ ~file[i].isMeta
         /\ file[i].message.content.shape = "items"
         /\ UserMsgOf(file[i]) = NoMsg
         /\ Hits(i) = {}
    /\ \E i \in 1..Len(file) :
         /\ file[i].json /\ file[i].type = "assistant"
         /\ file[i].message.shape = "ok"
         /\ AsstBlocksOf(file[i]) = <<>>
         /\ file[i].message.id \notin GroupIDs
         /\ Hits(i) = {}
    /\ Len(msgs) >= 1

\* C6: no returned message, of either role and for either content shape,
\* holds a text or thinking block whose text is the empty string.
C6_NoEmptyTextBlock ==
    Returned =>
      \A k \in 1..Len(msgs) : \A b \in 1..Len(msgs[k].Blocks) :
        msgs[k].Blocks[b].Type \in {"text", "thinking"}
          => msgs[k].Blocks[b].Text # EmptyStr

\* The kinds of the blocks of the returned messages.
BlockKinds ==
    UNION { { msgs[k].Blocks[b].Type : b \in 1..Len(msgs[k].Blocks) } :
            k \in 1..Len(msgs) }

\* A user line whose items are all tool results (and there is one).
OnlyToolResults(row) ==
    /\ row.json /\ row.type = "user" /\ ~row.isMeta
    /\ row.message.shape = "ok"
    /\ row.message.content.shape = "items"
    /\ Len(row.message.content.items) > 0
    /\ \A j \in 1..Len(row.message.content.items) :
         row.message.content.items[j].type = "tool_result"

\* C7: with includeTools off no tool_use and no tool_result block is
\* returned, with includeThinking off no thinking block; a user line of
\* tool results only yields no message with includeTools off and one with
\* it on.
C7_OptionGating ==
    Returned =>
      /\ ~opts.IncludeTools => BlockKinds \cap {"tool_use", "tool_result"} = {}
      /\ ~opts.IncludeThinking => "thinking" \notin BlockKinds
      /\ \A i \in 1..Len(file) :
           OnlyToolResults(file[i]) =>
             Cardinality(Hits(i)) = (IF opts.IncludeTools THEN 1 ELSE 0)

\* The kind of the first item of a line's content ("" when it has none).
FirstItemKind(row) ==
    IF row.json /\ row.message.shape = "ok"
       /\ row.message.content.shape = "items"
       /\ Len(row.message.content.items) > 0
    THEN row.message.content.items[1].type
    ELSE ""

\* C7 witness: with both options off, a log holding a tool-result user line,
\* a tool_use line and a thinking line is returned without their blocks.
C7_Witness ==
    /\ Returned
    /\ ~opts.IncludeTools /\ ~opts.IncludeThinking
    /\ \E i \in 1..Len(file) : OnlyToolResults(file[i]) /\ Hits(i) = {}
    /\ \E i, j \in 1..Len(file) :
         /\ file[i].type = "assistant" /\ FirstItemKind(file[i]) = "tool_use"
         /\ file[j].type = "assistant" /\ FirstItemKind(file[j]) = "thinking"
    /\ Len(msgs) = 1

\* A line has just been scanned and it was an ignored one.
ScannedIgnored ==
    /\ pc = "scan"
    /\ Len(file') = Len(file) + 1
    /\ Ignored(file'[Len(file')])

\* C8: a line of a kind other than user and assistant, and a meta user line,
\* leaves the user message list and the assistant groups as they were, only
\* the sequence counter moves; no returned message stems from such a line.
C8_IgnoredLinesFrame ==
    /\ [][ScannedIgnored =>
            /\ userMsgs' = userMsgs
            /\ assistantGroups' = assistantGroups
            /\ assistantIDs' = assistantIDs
            /\ seq' = seq + 1
            /\ UNCHANGED <<all, msgs>>]_vars
    /\ [](Returned => \A i \in 1..Len(file) : Ignored(file[i]) => Hits(i) = {})

\* C8 witness: a returned log in which an ignored kind and a meta user line
\* stand between two lines that produced messages.
C8_Witness ==
    /\ Returned
    /\ Len(file) = 4
    /\ UserMsgOf(file[1]) # NoMsg
    /\ file[2].json /\ file[2].type = "progress"
    /\ file[3].json /\ file[3].type = "user" /\ file[3].isMeta
    /\ Len(AsstBlocksOf(file[4])) > 0
    /\ RolesOf(msgs) = <<"user", "assistant">>

Markers == {"<command-name>", "<local-command", "<system-reminder>"}

\* A non-meta user line whose content is a bare string.
BareString(row) ==
    /\ row.json /\ row.type = "user" /\ ~row.isMeta
    /\ row.message.shape = "ok"
    /\ row.message.content.shape = "string"

\* C9: a non-meta user line whose content is a bare string yields no message
\* when the string contains one of the three markers, and otherwise exactly
\* one user message with a single text block holding the string unchanged
\* and the line's timestamp.
C9_BareStringUserLine ==
    Returned =>
      \A i \in 1..Len(file) :
        BareString(file[i]) =>
          LET str == file[i].message.content.str IN
          IF \E m \in Markers : Contains(str, m)
          THEN Hits(i) = {}
          ELSE /\ Cardinality(Hits(i)) = 1
               /\ \A k \in Hits(i) :
                    /\ msgs[k] = all[k].msg
                    /\ msgs[k].Role = "user"
                    /\ msgs[k].Timestamp = file[i].timestamp
                    /\ Len(msgs[k].Blocks) = 1
                    /\ msgs[k].Blocks[1].Type = "text"
                    /\ msgs[k].Blocks[1].Text = str

\* C9 witness: a plain string line and a line with the system-reminder
\* marker have been returned as one message.
C9_Witness ==
    /\ Returned
    /\ Len(file) = 2
    /\ BareString(file[1]) /\ Contains(file[1].message.content.str, "<system-reminder>")
    /\ BareString(file[2]) /\ file[2].message.content.str = <<"hi">>
    /\ Len(msgs) = 1
    /\ msgs[1].Blocks[1].Text = <<"hi">>

\* A non-meta user line whose content is a sequence of items.
ItemSequence(row) ==
    /\ row.json /\ row.type = "user" /\ ~row.isMeta
    /\ row.message.shape = "ok"
    /\ row.message.content.shape = "items"

\* The items (by position) of a user line that survive: text items without
\* a marker, and tool results when includeTools is on.
Surviving(items) ==
    { j \in 1..Len(items) :
        \/ items[j].type = "text" /\ ~\E m \in Markers : Contains(items[j].text, m)
        \/ items[j].type = "tool_result" /\ opts.IncludeTools }

\* The n-th smallest element of a set of numbers.
Nth(S, n) == CHOOSE x \in S : Cardinality({ y \in S : y <= x }) = n

\* C10: in a user line whose content is a sequence of items the marker test
\* is made per item: a text item with a marker is dropped, the surviving
\* items are kept in their order, and the message is dropped only when no
\* item survives.
C10_PerItemMarkerFilter ==
    Returned =>
      \A i \in 1..Len(file) :
        ItemSequence(file[i]) =>
          LET items == file[i].message.content.items
              surv == Surviving(items)
          IN IF surv = {}
             THEN Hits(i) = {}
             ELSE /\ Cardinality(Hits(i)) = 1
                  /\ \A k \in Hits(i) :
                       /\ msgs[k].Role = "user"
                       /\ Len(msgs[k].Blocks) = Cardinality(surv)
                       /\ \A n \in 1..Len(msgs[k].Blocks) :
                            LET item == items[Nth(surv, n)]
                                blk == msgs[k].Blocks[n]
                            IN /\ blk.Type = item.type
                               /\ item.type = "text" => blk.Text = item.text
                               /\ item.type = "tool_result" =>
                                    blk.ToolUseID = item.tool_use_id

\* C10 witness: a line whose second text item holds a marker is returned
\* with its other three items, in order.
C10_Witness ==
    /\ Returned
    /\ opts.IncludeTools
    /\ Len(file) = 1
    /\ ItemSequence(file[1])
    /\ Len(file[1].message.content.items) = 4
    /\ Surviving(file[1].message.content.items) = {1, 3, 4}
    /\ Len(msgs) = 1
    /\ [n \in 1..3 |-> msgs[1].Blocks[n].Type] = <<"text", "tool_result", "text">>

-----------------------------------------------------------------------------
(* Tool-result content *)

\* An element of a tool_result's content array (lines 343-346).
ResultPart(type, text) == [type |-> type, text |-> text]

\* A user row holding one tool_result item with the given content.
ToolResultRow(ts, content) ==
    Row("user", FALSE, ts, Payload("u", ItemsContent(<<ToolResultItem("t1", content, FALSE)>>)))

\* The lines a session log is made of under SpecToolResults: one tool result
\* per line, of every content shape.
ToolResultLines ==
    { ToolResultRow("R1", RawAbsent),
      ToolResultRow("R2", RawString(<<"hello">>)),
      ToolResultRow("R3", RawString(EmptyStr)),
      ToolResultRow("R4", RawItems(<<ResultPart("text", <<"a">>),
                                     ResultPart("text", <<"b">>)>>)),
      ToolResultRow("R5", RawItems(<<ResultPart("text", EmptyStr),
                                     ResultPart("text", <<"a">>)>>)),
      ToolResultRow("R6", RawItems(<<ResultPart("image", <<"x">>),
                                     ResultPart("text", <<"a">>)>>)),
      ToolResultRow("R7", RawItems(<<>>)),
      ToolResultRow("R8", RawOther(<<"12345">>)) }

NextToolResults ==
    \/ Open
    \/ OpenFail
    \/ ScanLine(ToolResultLines, MaxContentLines)
    \/ ScanError
    \/ ReturnMessages

SpecToolResults == Init /\ [][NextToolResults]_vars

\* The elements of a content array that count: kind text, text non-empty.
IsTextPart(part) == part.type = "text" /\ part.text # EmptyStr

RECURSIVE JoinedTexts(_)
\* The texts of the counting elements, joined by newlines.
JoinedTexts(parts) ==
    LET kept == SelectSeq(parts, IsTextPart) IN
    IF Len(kept) = 0 THEN EmptyStr
    ELSE IF Len(kept) = 1 THEN kept[1].text
    ELSE kept[1].text \o <<"\n">> \o JoinedTexts(Tail(kept))

\* The text the extraction rule gives for a tool_result content.
ExpectedResultText(raw) ==
    IF raw.shape = "absent" THEN EmptyStr
    ELSE IF raw.shape = "string" THEN raw.str
    ELSE IF raw.shape = "items" THEN JoinedTexts(raw.items)
    ELSE raw.raw

\* C11: the text of a tool_result block is the empty string for absent
\* content, the string itself for a JSON string, the newline-joined texts of
\* the elements of kind text with non-empty text for an array (elements of
\* another kind contribute nothing), and the raw form for anything else.
C11_ToolResultExtraction ==
    (Returned /\ opts.IncludeTools) =>
      \A i \in 1..Len(file) :
        OnlyToolResults(file[i]) =>
          \A k \in Hits(i) :
            \A n \in 1..Len(msgs[k].Blocks) :
              msgs[k].Blocks[n].Text =
                ExpectedResultText(file[i].message.content.items[n].content)

-----------------------------------------------------------------------------
(* Assistant content *)

\* An assistant row holding the given items.
AssistantRow(ts, id, items) ==
    Row("assistant", FALSE, ts, Payload(id, ItemsContent(items)))

\* The lines a session log is made of under SpecAssistantRows: thinking
\* items with either, both or neither of their two fields set, and the two
\* other kinds.
AssistantLines ==
    { AssistantRow("A1", "a1", <<ThinkingItem(<<"t">>, EmptyStr)>>),
      AssistantRow("A2", "a2", <<ThinkingItem(EmptyStr, <<"fb">>)>>),
      AssistantRow("A3", "a3", <<ThinkingItem(EmptyStr, EmptyStr)>>),
      AssistantRow("A4", "a4", <<ThinkingItem(<<"t2">>, <<"other">>)>>),
      AssistantRow("A5", "a2", <<TextItem(<<"x">>)>>),
      AssistantRow("A6", "a6", <<ToolUseItem("t1", "Read", NoInput)>>) }

NextAssistantRows ==
    \/ Open
    \/ OpenFail
    \/ ScanLine(AssistantLines, MaxContentLines)
    \/ ScanError
    \/ ReturnMessages

SpecAssistantRows == Init /\ [][NextAssistantRows]_vars

\* An assistant line whose content is one item of kind thinking.
ThinkingOnly(row) ==
    /\ row.json /\ row.type = "assistant" /\ row.message.shape = "ok"
    /\ row.message.content.shape = "items"
    /\ Len(row.message.content.items) = 1
    /\ row.message.content.items[1].type = "thinking"

\* The text a thinking item resolves to: its thinking field, or its text
\* field when the thinking field is empty.
ResolvedThinking(item) ==
    IF item.thinking # EmptyStr THEN item.thinking ELSE item.text

\* The lines n.. of the log that carry identifier id.
LinesOf(id) == { i \in 1..Len(file) : file[i].json /\ file[i].message.id = id }

RECURSIVE ResolvedTexts(_, _)
\* The non-empty resolved texts of the thinking lines n.. of identifier id.
ResolvedTexts(id, n) ==
    IF n > Len(file) THEN <<>>
    ELSE (IF n \in LinesOf(id)
             /\ ResolvedThinking(file[n].message.content.items[1]) # EmptyStr
          THEN <<ResolvedThinking(file[n].message.content.items[1])>>
          ELSE <<>>)
         \o ResolvedTexts(id, n + 1)

\* C12: with includeThinking on, a thinking item's text is its thinking
\* field, or its text field when the thinking field is empty, and it yields a
\* thinking block iff that text is non-empty.
C12_ThinkingFallback ==
    (Returned /\ opts.IncludeThinking) =>
      \A i \in 1..Len(file) :
        (ThinkingOnly(file[i]) /\ \A j \in LinesOf(file[i].message.id) : ThinkingOnly(file[j])) =>
          LET id == file[i].message.id
              texts == ResolvedTexts(id, 1)
              mine == UNION { Hits(j) : j \in LinesOf(id) }
          IN IF texts = <<>>
             THEN mine = {}
             ELSE /\ Cardinality(mine) = 1
                  /\ \A k \in mine :
                       /\ msgs[k].Role = "assistant"
                       /\ Len(msgs[k].Blocks) = Len(texts)
                       /\ \A n \in 1..Len(texts) :
                            /\ msgs[k].Blocks[n].Type = "thinking"
                            /\ msgs[k].Blocks[n].Text = texts[n]

\* C12 witness: a thinking item with only its text field set is returned
\* as a thinking block with that text, one with neither field set as nothing.
C12_Witness ==
    /\ Returned /\ opts.IncludeThinking
    /\ Len(file) = 2
    /\ ThinkingOnly(file[1]) /\ ThinkingOnly(file[2])
    /\ file[1].message.content.items[1].thinking = EmptyStr
    /\ file[1].message.content.items[1].text = <<"fb">>
    /\ ResolvedThinking(file[2].message.content.items[1]) = EmptyStr
    /\ Len(msgs) = 1
    /\ msgs[1].Blocks = <<ThinkingBlock(<<"fb">>)>>

-----------------------------------------------------------------------------
(* ParseHistory *)

\* historyEntry; json is whether the line decodes as one at all
Entry(display, ts, project, sessionId) ==
    [json |-> TRUE, display |-> display, timestamp |-> ts, project |-> project,
     sessionId |-> sessionId]
BadEntry ==
    [json |-> FALSE, display |-> EmptyStr, timestamp |-> 0, project |-> "",
     sessionId |-> ""]

\* The lines a history log is made of under SpecHistory.
HistoryLines ==
    { BadEntry,
      Entry(<<"anon">>, 4000, "/p", ""),
      Entry(<<"hello">>, 1000, "/p", "a"),
      Entry(<<"x">>, 2000, "/q", "a"),
      Entry(<<"y">>, 500, "/p", "b"),
      Entry(<<"z">>, 3000, "/q", "b"),
      Entry(<<"w">>, 1000, "/r", "c") }

\* Lines 95-97 without the test.
skipEntryNever(e) == FALSE

\* Lines 95-97: an entry without a session identifier is skipped.
skipEntry(e) == e.sessionId = ""

\* Lines 98-106 storing the entry whether or not the identifier was seen.
recordLast(st, e) ==
    [seen |-> [id \in (DOMAIN st.seen) \cup {e.sessionId} |->
                 IF id = e.sessionId
                 THEN SessionSummary(e.sessionId, e.project, e.display, e.timestamp)
                 ELSE st.seen[id]],
     order |-> IF e.sessionId \in DOMAIN st.seen THEN st.order
               ELSE Append(st.order, e.sessionId)]

\* Lines 98-106: the first entry of an identifier becomes its summary.
recordFirst(st, e) ==
    IF e.sessionId \in DOMAIN st.seen THEN st
    ELSE [seen |-> [id \in (DOMAIN st.seen) \cup {e.sessionId} |->
                      IF id = e.sessionId
                      THEN SessionSummary(e.sessionId, e.project, e.display, e.timestamp)
                      ELSE st.seen[id]],
          order |-> Append(st.order, e.sessionId)]

\* Lines 91-106: the loop body for one scanned line; st is [seen, order].
processEntry(e, st) ==
    IF ~e.json THEN st
    ELSE IF skipEntry(e) THEN st
    ELSE recordFirst(st, e)

\* Lines 112-115: the summaries in first-seen order.
summariesOf(ord, sn) == [i \in 1..Len(ord) |-> sn[ord[i]]]

\* Line 117 with the comparison turned around.
historyLessAscending(a, b) == a.Timestamp < b.Timestamp

\* Line 117: the comparison handed to sort.Slice.
historyLess(a, b) == a.Timestamp > b.Timestamp

RECURSIVE historySortResults(_)
\* sort.Slice is not stable: every arrangement of s in which no element is
\* less than one before it is a possible result.
historySortResults(s) ==
    IF Len(s) = 0 THEN {<<>>}
    ELSE UNION { { <<s[i]>> \o r : r \in historySortResults(RemoveAt(s, i)) } :
                 i \in { i \in 1..Len(s) :
                           \A j \in 1..Len(s) : ~historyLess(s[j], s[i]) } }

\* Line 109 handing back the summaries gathered so far.
historyScanErrorResultPartial(ord, sn) == summariesOf(ord, sn)

\* Line 109: return nil, err.
historyScanErrorResult(ord, sn) == <<>>

\* Line 119: return results, nil.
historyReturnErr(r) == "none"

\* Lines 78-89: os.Open succeeds.
HOpen ==
    /\ hpc = "open"
    /\ hpc' = "scan"
    /\ hf' = "open"
    /\ UNCHANGED <<hfile, seen, order, results, herr>>
    /\ UNCHANGED <<svars, rvars, xvars>>

\* Lines 79-82: os.Open fails; nil and the wrapped error are returned.
HOpenFail ==
    /\ hpc = "open"
    /\ hpc' = "done"
    /\ herr' = "open history"
    /\ UNCHANGED <<hfile, hf, seen, order, results>>
    /\ UNCHANGED <<svars, rvars, xvars>>

\* Lines 90-107: scanner.Scan() delivers one more line, drawn from L.
HScanLine(L, max) ==
    /\ hpc = "scan"
    /\ Len(hfile) < max
    /\ \E e \in L :
         LET st == processEntry(e, [seen |-> seen, order |-> order])
         IN /\ hfile' = Append(hfile, e)
            /\ seen' = st.seen
            /\ order' = st.order
    /\ UNCHANGED <<hpc, hf, results, herr>>
    /\ UNCHANGED <<svars, rvars, xvars>>

\* Lines 108-110 and 83: the scanner stopped on a read error.
HScanError ==
    /\ hpc = "scan"
    /\ hpc' = "done"
    /\ herr' = "scan history"
    /\ results' = historyScanErrorResult(order, seen)
    /\ hf' = closeFile(hf)
    /\ UNCHANGED <<hfile, seen, order>>
    /\ UNCHANGED <<svars, rvars, xvars>>

\* Lines 108-119 and 83: end of file; collect, sort, return.
ReturnSummaries ==
    /\ hpc = "scan"
    /\ \E sorted \in historySortResults(summariesOf(order, seen)) :
         /\ results' = sorted
         /\ herr' = historyReturnErr(sorted)
    /\ hpc' = "done"
    /\ hf' = closeFile(hf)
    /\ UNCHANGED <<hfile, seen, order>>
    /\ UNCHANGED <<svars, rvars, xvars>>

NextHistory ==
    \/ HOpen
    \/ HOpenFail
    \/ HScanLine(HistoryLines, MaxHistoryLines)
    \/ HScanError
    \/ ReturnSummaries

SpecHistory == Init /\ [][NextHistory]_vars

\* ParseHistory returned its summaries without an error.
HReturned == hpc = "done" /\ herr = "none"

\* The history lines that decode and carry a session identifier.
Carrying == { i \in 1..Len(hfile) : hfile[i].json /\ hfile[i].sessionId # "" }

\* The session identifiers found in the history log.
SessionIDs == { hfile[i].sessionId : i \in Carrying }

\* The first line that carries session identifier sid.
FirstLineOf(sid) == Min({ i \in Carrying : hfile[i].sessionId = sid })

\* C13: there is exactly one summary per distinct non-empty session
\* identifier found on a parsable line, and its id, project, first prompt
\* and timestamp are those of the first line carrying the identifier, also
\* when a later line of the identifier has a larger timestamp.
C13_FirstOccurrenceWins ==
    HReturned =>
      /\ Len(results) = Cardinality(SessionIDs)
      /\ \A sid \in SessionIDs :
           LET ks == { k \in 1..Len(results) : results[k].ID = sid }
               e == hfile[FirstLineOf(sid)]
           IN /\ Cardinality(ks) = 1
              /\ \A k \in ks :
                   /\ results[k].Project = e.project
                   /\ results[k].FirstPrompt = e.display
                   /\ results[k].Timestamp = e.timestamp

\* C13 witness: identifier a appears at 1000 and again at 2000, b at 500;
\* the result holds a with its first prompt and b.
C13_Witness ==
    /\ HReturned
    /\ Len(hfile) = 3
    /\ hfile[1].sessionId = "a" /\ hfile[1].timestamp = 1000
    /\ hfile[2].sessionId = "a" /\ hfile[2].timestamp = 2000
    /\ hfile[3].sessionId = "b"
    /\ Len(results) = 2
    /\ results[1] = SessionSummary("a", "/p", <<"hello">>, 1000)

RECURSIVE scanHistory(_, _)
\* The scan state after the loop has run over the lines of log from state st.
scanHistory(log, st) ==
    IF Len(log) = 0 THEN st
    ELSE scanHistory(Tail(log), processEntry(log[1], st))

\* The summary sequences ParseHistory can return for a log.
parseHistory(log) ==
    LET st == scanHistory(log, [seen |-> NoSummaries, order |-> <<>>])
    IN historySortResults(summariesOf(st.order, st.seen))

RECURSIVE StripMalformed(_)
\* The history log without the lines that do not decode.
StripMalformed(log) ==
    IF Len(log) = 0 THEN <<>>
    ELSE (IF log[1].json THEN <<log[1]>> ELSE <<>>) \o StripMalformed(Tail(log))

\* C14: no summary has an empty session identifier, and the summaries are
\* those of the log without its malformed lines.
C14_NoEmptyIdentifier ==
    HReturned =>
      /\ \A k \in 1..Len(results) : results[k].ID # ""
      /\ results \in parseHistory(StripMalformed(hfile))
      /\ parseHistory(StripMalformed(hfile)) = parseHistory(hfile)

\* C14 witness: a malformed line and an entry without identifier stand
\* before an entry that is returned alone.
C14_Witness ==
    /\ HReturned
    /\ Len(hfile) = 3
    /\ ~hfile[1].json
    /\ hfile[2].json /\ hfile[2].sessionId = ""
    /\ hfile[3].json /\ hfile[3].sessionId # ""
    /\ Len(results) = 1

\* C15: the summaries are in descending order of timestamp (each one's
\* timestamp is at least the next one's, and larger when the two differ),
\* the timestamp being that of the identifier's first line.
C15_DescendingTimestamp ==
    HReturned =>
      /\ \A k \in 1..(Len(results) - 1) :
           /\ results[k].Timestamp >= results[k + 1].Timestamp
           /\ results[k].Timestamp # results[k + 1].Timestamp
                => results[k].Timestamp > results[k + 1].Timestamp
      /\ \A k \in 1..Len(results) :
           /\ results[k].ID \in SessionIDs
           /\ results[k].Timestamp = hfile[FirstLineOf(results[k].ID)].timestamp

\* C15 witness: b is first seen at 500 and again at 3000, a at 1000; a is
\* returned before b.
C15_Witness ==
    /\ HReturned
    /\ Len(hfile) = 3
    /\ hfile[1].sessionId = "b" /\ hfile[1].timestamp = 500
    /\ hfile[2].sessionId = "b" /\ hfile[2].timestamp = 3000
    /\ hfile[3].sessionId = "a" /\ hfile[3].timestamp = 1000
    /\ Len(results) = 2
    /\ results[1].ID = "a" /\ results[2].ID = "b"

-----------------------------------------------------------------------------
(* A call of ParseSession and a call of ParseHistory *)

\* The lines of the session log under SpecCalls.
CallLines ==
    { BadLine,
      Row("progress", FALSE, "T0", Payload("p1", StrContent(<<"tick">>))),
      Row("user", FALSE, "T2", Payload("u1", StrContent(<<"hi">>))),
      Row("assistant", FALSE, "T4", Payload("m1",
          ItemsContent(<<TextItem(<<"A">>)>>))),
      Row("assistant", FALSE, "T6", Payload("m2",
          ItemsContent(<<TextItem(EmptyStr)>>))) }

\* The lines of the history log under SpecCalls.
CallEntries ==
    { BadEntry,
      Entry(<<"hello">>, 1000, "/p", "a"),
      Entry(<<"y">>, 500, "/p", "b") }

\* The two calls share no state; their steps are taken in any order.
NextCalls ==
    \/ Open
    \/ OpenFail
    \/ ScanLine(CallLines, MaxCallLines)
    \/ ScanError
    \/ ReturnMessages
    \/ HOpen
    \/ HOpenFail
    \/ HScanLine(CallEntries, MaxCallLines)
    \/ HScanError
    \/ ReturnSummaries

SpecCalls == Init /\ [][NextCalls]_vars

\* C16: a call that cannot open its file, or whose scanner reports a read
\* error after any number of lines, returns an error and nothing else, and
\* the error of a failed open differs from that of a failed read.
C16_FailsAtomically ==
    /\ (pc = "done" /\ err # "none") =>
         /\ msgs = <<>>
         /\ \/ f = "none" /\ err = "open session"
            \/ f = "closed" /\ err = "scan"
    /\ (hpc = "done" /\ herr # "none") =>
         /\ results = <<>>
         /\ \/ hf = "none" /\ herr = "open history"
            \/ hf = "closed" /\ herr = "scan history"

\* C16 witness: both calls hit a read error after lines that had already
\* produced a message and a summary.
C16_Witness ==
    /\ pc = "done" /\ err = "scan" /\ Len(userMsgs) = 1 /\ Len(assistantIDs) = 1
    /\ msgs = <<>>
    /\ hpc = "done" /\ herr = "scan history" /\ Len(order) = 2
    /\ results = <<>>

\* The session log has no line that yields a message or a block.
NoQualifyingLine == UserLinesKept = {} /\ GroupIDs = {}

\* The history log has no line that decodes.
AllMalformed == \A i \in 1..Len(hfile) : ~hfile[i].json

\* C17: when the file could be opened and read, an empty log, a log of
\* malformed lines only and a session log without qualifying messages give an
\* empty sequence and no error.
C17_EmptyIsNotAnError ==
    /\ (pc = "done" /\ err \notin {"open session", "scan"} /\ NoQualifyingLine) =>
         err = "none" /\ msgs = <<>>
    /\ (hpc = "done" /\ herr \notin {"open history", "scan history"} /\ AllMalformed) =>
         herr = "none" /\ results = <<>>

\* C17 witness: a session log of a malformed line and an assistant line of
\* empty text, and a history log of malformed lines, have both been returned
\* empty.
C17_Witness ==
    /\ Returned
    /\ Len(file) = 2 /\ ~file[1].json /\ file[2].json /\ file[2].type = "assistant"
    /\ msgs = <<>>
    /\ HReturned
    /\ Len(hfile) = 2 /\ AllMalformed
    /\ results = <<>>

\* C18: a log and an option setting have one possible result, which the
\* call returns: another run over the same log with the same options
\* returns the same messages in the same order.
C18_OneResultPerLog ==
    Returned => parseSession(file, opts) = {msgs}

\* C18 witness: a log of four lines has been returned as an assistant, a
\* user and another assistant message.
C18_Witness ==
    /\ Returned
    /\ Len(file) = 4
    /\ RolesOf(msgs) = <<"assistant", "user", "assistant">>

\* Where the file handle of a call stands at each point of the call.
HandleAt(p, e, h, openErr) ==
    /\ p = "open" => h = "none"
    /\ p = "scan" => h = "open"
    /\ p = "done" => h = (IF e = openErr THEN "none" ELSE "closed")

\* C19: a call that opened its file has closed it when it returns, on the
\* normal path and on a scan error, the handle being closed once, in the
\* step that returns; a call whose open failed holds no handle.
C19_HandleClosedOnce ==
    /\ [](HandleAt(pc, err, f, "open session") /\ HandleAt(hpc, herr, hf, "open history"))
    /\ [][/\ f' # f => \/ f = "none" /\ f' = "open"
                       \/ f = "open" /\ f' = "closed" /\ pc' = "done"
          /\ hf' # hf => \/ hf = "none" /\ hf' = "open"
                         \/ hf = "open" /\ hf' = "closed" /\ hpc' = "done"]_vars

\* C19 witness: the session call ended on a scan error with its handle
\* closed, the history call on a failed open without a handle.
C19_Witness ==
    /\ pc = "done" /\ err = "scan" /\ f = "closed" /\ Len(file) = 2
    /\ hpc = "done" /\ herr = "open history" /\ hf = "none"

\* C20: a group's timestamp and position are those of the first line of its
\* identifier that yields a block, from that line on; an earlier line of the
\* identifier that yields no block creates no group.
C20_GroupFixedByFirstBlock ==
    pc \in {"scan", "done"} =>
      /\ DOMAIN assistantGroups = GroupIDs
      /\ \A id \in DOMAIN assistantGroups :
           LET first == Min(GroupLines(id)) IN
           /\ assistantGroups[id].firstSeq = first - 1
           /\ assistantGroups[id].ts = file[first].timestamp
           /\ Returned => \A k \in Hits(first) :
                            all[k].msg.Timestamp = file[first].timestamp

\* C20 witness: with includeTools off, a tool_use line of m1 yields nothing;
\* the group of m1 is created by its text line, two lines later, and a
\* further line of m1 leaves its timestamp and position alone.
C20_Witness ==
    /\ Returned
    /\ ~opts.IncludeTools
    /\ Len(file) = 4
    /\ file[1].message.id = "m1" /\ FirstItemKind(file[1]) = "tool_use"
    /\ UserMsgOf(file[2]) # NoMsg
    /\ file[3].message.id = "m1" /\ FirstItemKind(file[3]) = "text"
    /\ file[4].message.id = "m1" /\ FirstItemKind(file[4]) = "text"
    /\ assistantGroups["m1"].firstSeq = 2
    /\ Len(assistantGroups["m1"].blocks) = 2
    /\ RolesOf(msgs) = <<"user", "assistant">>

-----------------------------------------------------------------------------
(* Assistant groups among user lines *)

\* The lines of the session log under SpecGrouped: user lines, lines of the
\* identifier m1 and assistant lines whose payload has no identifier.
GroupedLines ==
    { Row("user", FALSE, "G1", Payload("u1", StrContent(<<"hi">>))),
      Row("user", FALSE, "G2", Payload("u2",
          ItemsContent(<<ToolResultItem("t1", RawString(<<"out">>), FALSE)>>))),
      Row("assistant", FALSE, "G3", Payload("m1",
          ItemsContent(<<TextItem(<<"A">>)>>))),
      Row("assistant", FALSE, "G4", Payload("m1",
          ItemsContent(<<ToolUseItem("t1", "Read", Input("{p}"))>>))),
      Row("assistant", FALSE, "G5", Payload("",
          ItemsContent(<<TextItem(<<"B">>)>>))),
      Row("assistant", FALSE, "G6", Payload("",
          ItemsContent(<<ThinkingItem(<<"hmm">>, EmptyStr)>>))) }

NextGrouped ==
    \/ Open
    \/ OpenFail
    \/ ScanLine(GroupedLines, MaxGroupedLines)
    \/ ScanError
    \/ ReturnMessages

SpecGrouped == Init /\ [][NextGrouped]_vars

RECURSIVE Flatten(_)
\* The blocks of a message sequence, message after message.
Flatten(m) ==
    IF Len(m) = 0 THEN <<>> ELSE m[1].Blocks \o Flatten(Tail(m))

\* The blocks line i of the log yields.
BlocksOfLine(i) ==
    IF UserMsgOf(file[i]) # NoMsg THEN UserMsgOf(file[i])[1].Blocks
    ELSE AsstBlocksOf(file[i])

RECURSIVE FlatByLine(_)
\* The blocks of the lines n.. of the log, line after line.
FlatByLine(n) ==
    IF n > Len(file) THEN <<>> ELSE BlocksOfLine(n) \o FlatByLine(n + 1)

RECURSIVE FlatByFirstLine(_)
\* The blocks of the lines n.. of the log, with all the blocks of a group
\* standing at the group's first block-yielding line.
FlatByFirstLine(n) ==
    IF n > Len(file) THEN <<>>
    ELSE (IF UserMsgOf(file[n]) # NoMsg THEN UserMsgOf(file[n])[1].Blocks
          ELSE IF /\ Len(AsstBlocksOf(file[n])) > 0
                  /\ n = Min(GroupLines(file[n].message.id))
               THEN ConcatGroup(file[n].message.id, 1)
               ELSE <<>>)
         \o FlatByFirstLine(n + 1)

Max(S) == CHOOSE x \in S : \A y \in S : x >= y

\* No line that yields blocks for another message lies between two
\* block-yielding lines of one identifier.
Unsplit ==
    \A id \in GroupIDs :
      \A i \in Min(GroupLines(id))..Max(GroupLines(id)) :
        Len(BlocksOfLine(i)) > 0 => i \in GroupLines(id)

\* C21 as stated: the blocks of the returned messages, flattened, are the
\* blocks of the file lines in file order, also when a group is split by
\* user lines.
C21_BlockChronology ==
    Returned => Flatten(msgs) = FlatByLine(1)

\* C21 as amended: the flattened blocks are those of the file lines in file
\* order with every group's blocks gathered at its first block-yielding
\* line; this is the file order when no group is split by a line of another
\* message.
C21_MessageChronology ==
    Returned =>
      /\ Flatten(msgs) = FlatByFirstLine(1)
      /\ Unsplit => Flatten(msgs) = FlatByLine(1)

\* C21 witness: with includeTools on, a text line and a tool_use line of m1
\* with a user line between them are returned as the assistant message of
\* both blocks followed by the user message.
C21_Witness ==
    /\ Returned
    /\ opts.IncludeTools
    /\ Len(file) = 3
    /\ file[1].message.id = "m1" /\ FirstItemKind(file[1]) = "text"
    /\ UserMsgOf(file[2]) # NoMsg
    /\ file[3].message.id = "m1" /\ FirstItemKind(file[3]) = "tool_use"
    /\ RolesOf(msgs) = <<"assistant", "user">>
    /\ Len(msgs[1].Blocks) = 2
    /\ ~Unsplit

-----------------------------------------------------------------------------
(* RenderHTML (renderer.go) *)

\* renderMarkdown, lines 109-134: the text as an HTML fragment.
renderMarkdown(text) == <<"<p>">> \o text \o <<"</p>">>

\* highlightJSON, lines 161-171: the tool input as a highlighted fragment.
highlightJSON(jsonStr) == <<"<pre class=chroma>", jsonStr, "</pre>">>

\* html.EscapeString
escapeString(s) == [i \in 1..Len(s) |-> IF s[i] = "<" THEN "&lt;" ELSE s[i]]

\* truncate, lines 184-189.
truncate(s, maxLen) ==
    IF Len(s) <= maxLen THEN s
    ELSE SubSeq(s, 1, maxLen) \o <<"\n... (truncated)">>

\* renderedBlock, lines 34-39.
renderedBlock(type, html, toolName, isError) ==
    [Type |-> type, HTML |-> html, ToolName |-> toolName, IsError |-> isError]

\* Lines 77-79 without the test of the role.
toolResultVisibleAlways(role) == TRUE

\* Lines 77-79: a tool_result makes only an assistant message visible.
toolResultVisible(role) == role = "assistant"

\* Lines 50-80: what one block adds to the rendered message.
renderBlock(b, role) ==
    IF b.Type = "text"
    THEN [Blocks |-> <<renderedBlock("text", renderMarkdown(b.Text), "", FALSE)>>,
          visible |-> TRUE]
    ELSE IF b.Type = "thinking"
    THEN [Blocks |-> <<renderedBlock("thinking", renderMarkdown(b.Text), "", FALSE)>>,
          visible |-> TRUE]
    ELSE IF b.Type = "tool_use"
    THEN [Blocks |-> <<renderedBlock("tool_use", highlightJSON(b.ToolInput),
                                     b.ToolName, FALSE)>>,
          visible |-> TRUE]
    ELSE IF b.Type = "tool_result"
    THEN [Blocks |-> <<renderedBlock("tool_result",
                         <<"<pre class=tool-output>">>
                           \o escapeString(truncate(b.Text, 2000))
                           \o <<"</pre>">>, "", b.IsError)>>,
          visible |-> toolResultVisible(role)]
    ELSE [Blocks |-> <<>>, visible |-> FALSE]

RECURSIVE renderBlocks(_, _)
\* Lines 47-81: the rendered blocks of a message and its hasVisible flag.
renderBlocks(blocks, role) ==
    IF Len(blocks) = 0 THEN [Blocks |-> <<>>, visible |-> FALSE]
    ELSE LET one == renderBlock(blocks[1], role)
             rest == renderBlocks(Tail(blocks), role)
         IN [Blocks |-> one.Blocks \o rest.Blocks,
             visible |-> one.visible \/ rest.visible]

RECURSIVE renderMessages(_)
\* Lines 45-85: the rendered messages, those without a visible block left out.
renderMessages(m) ==
    IF Len(m) = 0 THEN <<>>
    ELSE LET rm == renderBlocks(m[1].Blocks, m[1].Role) IN
         (IF rm.visible THEN <<[Role |-> m[1].Role, Blocks |-> rm.Blocks]>>
          ELSE <<>>)
         \o renderMessages(Tail(m))

RECURSIVE SelectTypes(_, _)
SelectTypes(blocks, types) ==
    IF Len(blocks) = 0 THEN <<>>
    ELSE (IF blocks[1].Type \in types THEN <<blocks[1]>> ELSE <<>>)
         \o SelectTypes(Tail(blocks), types)

\* htmlTemplate, lines 343-402: one element per rendered message; a user
\* element shows its text blocks, any other element its text, thinking,
\* tool_use and tool_result blocks.
messageElement(rm) ==
    IF rm.Role = "user"
    THEN [class |-> "msg msg-user", body |-> SelectTypes(rm.Blocks, {"text"})]
    ELSE [class |-> "msg msg-assistant",
          body |-> SelectTypes(rm.Blocks,
                     {"text", "thinking", "tool_use", "tool_result"})]

\* htmlTemplate, lines 324-337: the title and the session information.
headerOf(m) ==
    [title |-> IF m.FirstPrompt # EmptyStr THEN m.FirstPrompt
               ELSE <<"Claude Conversation">>,
     messages |-> IF m.MessageCount # 0 THEN <<m.MessageCount>> ELSE <<>>,
     project |-> m.Project,
     date |-> m.Date]

\* Lines 87-105: the constant template parses and executes into a buffer.
executeTemplate(m, rendered) ==
    [Header |-> headerOf(m),
     Elements |-> [i \in 1..Len(rendered) |-> messageElement(rendered[i])]]

\* RenderHTML, lines 33-106.
RenderHTML(m, mt, o) ==
    [html |-> executeTemplate(mt, renderMessages(m)), err |-> "none"]

\* A message of one role and some block kinds.
RenderBlock(type) ==
    ContentBlock(type, IF type = "tool_use" THEN EmptyStr ELSE <<"t">>,
                 IF type = "tool_use" THEN "Read" ELSE "",
                 IF type = "tool_use" THEN "{p}" ELSE "",
                 "", FALSE)

\* The block lists of the messages handed to RenderHTML under SpecRender.
RenderBlockLists ==
    { <<>>,
      <<RenderBlock("text")>>,
      <<RenderBlock("thinking")>>,
      <<RenderBlock("tool_use")>>,
      <<RenderBlock("tool_result")>>,
      <<RenderBlock("tool_result"), RenderBlock("tool_result")>>,
      <<RenderBlock("tool_result"), RenderBlock("text")>>,
      <<RenderBlock("image")>> }

\* The messages handed to RenderHTML under SpecRender.
RenderMessages ==
    { Message(r, b, "T") : r \in {"user", "assistant"}, b \in RenderBlockLists }

\* The message lists handed to RenderHTML under SpecRender.
RenderInputs ==
    UNION { [1..n -> RenderMessages] : n \in 0..MaxRenderMessages }

\* A call of RenderHTML on a list of messages.
InitRender ==
    /\ pc = "open"
    /\ opts \in [IncludeTools : BOOLEAN, IncludeThinking : BOOLEAN]
    /\ file = <<>>
    /\ f = "none"
    /\ seq = 0
    /\ userMsgs = <<>>
    /\ assistantGroups = NoGroups
    /\ assistantIDs = <<>>
    /\ all = <<>>
    /\ msgs = <<>>
    /\ err = "none"
    /\ hpc = "open"
    /\ hfile = <<>>
    /\ hf = "none"
    /\ seen = NoSummaries
    /\ order = <<>>
    /\ results = <<>>
    /\ herr = "none"
    /\ rpc = "call"
    /\ messages \in RenderInputs
    /\ doc = NoDoc
    /\ xpc = "idle"
    /\ args = NoArgs
    /\ sessionPath = ""
    /\ sessions = <<>>
    /\ meta = SessionMeta("t", EmptyStr, EmptyStr, 0, EmptyStr)
    /\ htmlStr = NoDoc.html
    /\ stdout = <<>>
    /\ outFile = <<>>
    /\ stderr = <<>>
    /\ exit = "running"

\* RenderHTML runs to its return.
Render ==
    /\ rpc = "call"
    /\ rpc' = "done"
    /\ doc' = RenderHTML(messages, meta, opts)
    /\ UNCHANGED <<messages, svars, hvars, xvars>>

NextRender == Render

SpecRender == InitRender /\ [][NextRender]_vars

\* A block that makes its message visible: text, thinking and tool_use in
\* any message, tool_result in an assistant message.
VisibleBlock(b, role) ==
    \/ b.Type \in {"text", "thinking", "tool_use"}
    \/ b.Type = "tool_result" /\ role = "assistant"

HasVisible(m) == \E i \in 1..Len(m.Blocks) : VisibleBlock(m.Blocks[i], m.Role)

RECURSIVE VisibleMessages(_)
\* The messages with a visible block, in input order.
VisibleMessages(m) ==
    IF Len(m) = 0 THEN <<>>
    ELSE (IF HasVisible(m[1]) THEN <<m[1]>> ELSE <<>>) \o VisibleMessages(Tail(m))

\* C22: the document has one message element for each input message with a
\* visible block, in input order, and none for the others, among them a
\* user message of tool_result blocks only; rendering reports no error, also
\* for the empty message list.
C22_RendersVisibleMessages ==
    rpc = "done" =>
      LET shown == VisibleMessages(messages)
          els == doc.html.Elements
      IN /\ doc.err = "none"
         /\ Len(els) = Len(shown)
         /\ \A i \in 1..Len(els) :
              /\ els[i].class = (IF shown[i].Role = "user" THEN "msg msg-user"
                                 ELSE "msg msg-assistant")
              /\ els[i] = messageElement(
                   [Role |-> shown[i].Role,
                    Blocks |-> renderBlocks(shown[i].Blocks, shown[i].Role).Blocks])
         /\ Len(messages) = 0 => Len(els) = 0

\* C22 witness: a user message of two tool_result blocks followed by an
\* assistant message of one tool_result block has been rendered as one
\* assistant element.
C22_Witness ==
    /\ rpc = "done"
    /\ Len(messages) = 2
    /\ messages[1].Role = "user" /\ Len(messages[1].Blocks) = 2
    /\ \A i \in 1..2 : messages[1].Blocks[i].Type = "tool_result"
    /\ messages[2].Role = "assistant"
    /\ messages[2].Blocks = <<RenderBlock("tool_result")>>
    /\ Len(doc.html.Elements) = 1
    /\ doc.html.Elements[1].class = "msg msg-assistant"

-----------------------------------------------------------------------------
(* cmdExport (main.go) *)

\* filepath.Base of a path given as its components.
base(path) == IF Len(path) = 0 THEN <<".">> ELSE <<path[Len(path)]>>

\* time.UnixMilli(ts).Format("Jan 2, 2006"): the day the timestamp falls on.
formatDate(ts) == <<"day", ts \div 86400000>>

RECURSIVE metaFor(_, _, _)
\* Lines 201-209: the metadata, completed from the first summary of the session.
metaFor(sessionID, ss, count) ==
    IF Len(ss) = 0
    THEN SessionMeta(sessionID, EmptyStr, EmptyStr, count, EmptyStr)
    ELSE IF ss[1].ID = sessionID
    THEN SessionMeta(sessionID, base(ss[1].Project), formatDate(ss[1].Timestamp),
                     count, ss[1].FirstPrompt)
    ELSE metaFor(sessionID, Tail(ss), count)

\* Line 195 with the test left out.
noMessagesNever(m) == FALSE

\* Line 195: len(messages) == 0.
noMessages(m) == Len(m) = 0

\* The lines of the session log under SpecExport.
ExportLines ==
    { Row("user", FALSE, "E1", Payload("u1", StrContent(<<"hi">>))),
      Row("user", FALSE, "E2", Payload("u2",
          ItemsContent(<<ToolResultItem("t1", RawString(<<"out">>), FALSE)>>))),
      Row("assistant", FALSE, "E3", Payload("m1",
          ItemsContent(<<TextItem(<<"A">>)>>))) }

\* The lines of the history log under SpecExport.
ExportEntries ==
    { BadEntry,
      Entry(<<"hello">>, 90000000, <<"home", "p">>, "a"),
      Entry(<<"y">>, 500, <<"home", "q">>, "b") }

\* Lines 152-180: the arguments name a session.
XArgs ==
    /\ xpc = "idle"
    /\ \E out \in {"", "out.html"} :
         args' = [positional |-> <<"a">>, output |-> out]
    /\ xpc' = "locate"
    /\ UNCHANGED <<sessionPath, sessions, meta, htmlStr, stdout, outFile,
                   stderr, exit>>
    /\ UNCHANGED <<svars, hvars, rvars>>

\* Lines 152-179: the arguments name no session.
XNoSessionID ==
    /\ xpc = "idle"
    /\ \E out \in {"", "out.html"} :
         args' = [positional |-> <<>>, output |-> out]
    /\ stderr' = Append(stderr, "Error: session ID required")
    /\ exit' = "fail"
    /\ xpc' = "exited"
    /\ UNCHANGED <<sessionPath, sessions, meta, htmlStr, stdout, outFile>>
    /\ UNCHANGED <<svars, hvars, rvars>>

\* Lines 182 and parser.go 122-139: FindSessionPath finds the session's log.
XLocate ==
    /\ xpc = "locate"
    /\ sessionPath' = "projects/p/a.jsonl"
    /\ xpc' = "parse"
    /\ UNCHANGED <<args, sessions, meta, htmlStr, stdout, outFile, stderr, exit>>
    /\ UNCHANGED <<svars, hvars, rvars>>

\* Lines 182-186: FindSessionPath fails.
XLocateFail ==
    /\ xpc = "locate"
    /\ stderr' = Append(stderr, "Error: session not found")
    /\ exit' = "fail"
    /\ xpc' = "exited"
    /\ UNCHANGED <<args, sessionPath, sessions, meta, htmlStr, stdout, outFile>>
    /\ UNCHANGED <<svars, hvars, rvars>>

\* Line 192: the call of ParseSession.
XParseSession ==
    /\ xpc = "parse"
    /\ \/ Open
       \/ OpenFail
       \/ ScanLine(ExportLines, MaxExportLines)
       \/ ScanError
       \/ ReturnMessages

\* Lines 192-196: ParseSession returned an error.
XParseError ==
    /\ xpc = "parse"
    /\ pc = "done"
    /\ err # "none"
    /\ stderr' = Append(stderr, "Error parsing session")
    /\ exit' = "fail"
    /\ xpc' = "exited"
    /\ UNCHANGED <<args, sessionPath, sessions, meta, htmlStr, stdout, outFile>>
    /\ UNCHANGED <<svars, hvars, rvars>>

\* Lines 192-193: ParseSession returned its messages.
XParsed ==
    /\ xpc = "parse"
    /\ pc = "done"
    /\ err = "none"
    /\ xpc' = "check"
    /\ UNCHANGED <<args, sessionPath, sessions, meta, htmlStr, stdout, outFile,
                   stderr, exit>>
    /\ UNCHANGED <<svars, hvars, rvars>>

\* Lines 195-198: the test for an empty session.
XCheckEmpty ==
    /\ xpc = "check"
    /\ IF noMessages(msgs)
       THEN /\ stderr' = Append(stderr, "No messages found in session")
            /\ exit' = "fail"
            /\ xpc' = "exited"
       ELSE /\ xpc' = "history"
            /\ UNCHANGED <<stderr, exit>>
    /\ UNCHANGED <<args, sessionPath, sessions, meta, htmlStr, stdout, outFile>>
    /\ UNCHANGED <<svars, hvars, rvars>>

\* Line 200: the call of ParseHistory.
XParseHistory ==
    /\ xpc = "history"
    /\ \/ HOpen
       \/ HOpenFail
       \/ HScanLine(ExportEntries, MaxExportLines)
       \/ HScanError
       \/ ReturnSummaries

\* Lines 200-209 and 372-384: an error of ParseHistory is dropped (first
\* listing of main.go) or reported as a warning (second listing); the
\* metadata is built either way.
XMeta ==
    /\ xpc = "history"
    /\ hpc = "done"
    /\ sessions' = results
    /\ meta' = metaFor(args.positional[1], results, Len(msgs))
    /\ stderr' \in IF herr = "none" THEN {stderr}
                  ELSE {stderr,
                        Append(stderr, "Warning: could not load session history")}
    /\ xpc' = "render"
    /\ UNCHANGED <<args, sessionPath, htmlStr, stdout, outFile, exit>>
    /\ UNCHANGED <<svars, hvars, rvars>>

\* Lines 211-218: the call of RenderHTML and the test of its error.
XRender ==
    /\ xpc = "render"
    /\ LET d == RenderHTML(msgs, meta, opts) IN
       /\ htmlStr' = d.html
       /\ IF d.err # "none"
          THEN /\ stderr' = Append(stderr, "Error rendering")
               /\ exit' = "fail"
               /\ xpc' = "exited"
          ELSE /\ xpc' = "write"
               /\ UNCHANGED <<stderr, exit>>
    /\ UNCHANGED <<args, sessionPath, sessions, meta, stdout, outFile>>
    /\ UNCHANGED <<svars, hvars, rvars>>

\* Lines 220-225: os.WriteFile writes the document.
XWriteFile ==
    /\ xpc = "write"
    /\ args.output # ""
    /\ outFile' = <<[html |-> htmlStr, complete |-> TRUE]>>
    /\ stderr' = Append(stderr, "Exported to")
    /\ exit' = "ok"
    /\ xpc' = "exited"
    /\ UNCHANGED <<args, sessionPath, sessions, meta, htmlStr, stdout>>
    /\ UNCHANGED <<svars, hvars, rvars>>

\* Lines 220-224: os.WriteFile fails, having written nothing or a part.
XWriteFileFail ==
    /\ xpc = "write"
    /\ args.output # ""
    /\ outFile' \in {<<>>, <<[html |-> htmlStr, complete |-> FALSE]>>}
    /\ stderr' = Append(stderr, "Error writing file")
    /\ exit' = "fail"
    /\ xpc' = "exited"
    /\ UNCHANGED <<args, sessionPath, sessions, meta, htmlStr, stdout>>
    /\ UNCHANGED <<svars, hvars, rvars>>

\* Lines 226-228: the document goes to standard output.
XWriteStdout ==
    /\ xpc = "write"
    /\ args.output = ""
    /\ stdout' = Append(stdout, htmlStr)
    /\ exit' = "ok"
    /\ xpc' = "exited"
    /\ UNCHANGED <<args, sessionPath, sessions, meta, htmlStr, outFile, stderr>>
    /\ UNCHANGED <<svars, hvars, rvars>>

NextExport ==
    \/ XArgs
    \/ XNoSessionID
    \/ XLocate
    \/ XLocateFail
    \/ XParseSession
    \/ XParseError
    \/ XParsed
    \/ XCheckEmpty
    \/ XParseHistory
    \/ XMeta
    \/ XRender
    \/ XWriteFile
    \/ XWriteFileFail
    \/ XWriteStdout

SpecExport == Init /\ [][NextExport]_vars

\* The steps of the export command in their order, and the exit from any.
XSteps ==
    { <<"idle", "locate">>, <<"locate", "parse">>, <<"parse", "check">>,
      <<"check", "history">>, <<"history", "render">>, <<"render", "write">> }
    \cup { <<p, "exited">> : p \in {"idle", "locate", "parse", "check",
                                    "history", "render", "write"} }

\* The document has been written, to the file or to standard output.
Written == stdout # <<>> \/ outFile # <<>>

\* The session was located and parsed without error into at least one message.
Exportable ==
    sessionPath # "" /\ pc = "done" /\ err = "none" /\ Len(msgs) >= 1

\* C23: the export command goes through locate, parse, non-empty check,
\* history, render and write in this order, each call running in its step;
\* the document is written only in the write step, after the session was
\* located, parsed into at least one message and rendered, and otherwise
\* the command has failed without writing; a failed history load leaves the
\* metadata with the session id and the message count and fails nothing.
C23_ExportSteps ==
    /\ [][/\ xpc' # xpc => <<xpc, xpc'>> \in XSteps
          /\ (pc' # pc \/ file' # file) => xpc = "parse" /\ xpc' = "parse"
          /\ (hpc' # hpc \/ hfile' # hfile) => xpc = "history" /\ xpc' = "history"
          /\ htmlStr' # htmlStr => xpc = "render"
          /\ (stdout' # stdout \/ outFile' # outFile) => xpc = "write"]_vars
    /\ [](/\ Written =>
               /\ Exportable
               /\ RenderHTML(msgs, meta, opts) = [html |-> htmlStr, err |-> "none"]
               /\ stdout \in {<<>>, <<htmlStr>>}
               /\ \A i \in 1..Len(outFile) : outFile[i].html = htmlStr
          /\ (xpc = "exited" /\ ~Exportable) => exit = "fail" /\ ~Written
          /\ exit = "ok" => xpc = "exited" /\ Written
          /\ (xpc \in {"render", "write", "exited"} /\ hpc = "done" /\ herr # "none") =>
               /\ meta = SessionMeta(args.positional[1], EmptyStr, EmptyStr,
                                     Len(msgs), EmptyStr)
               /\ exit = "fail" => stderr[Len(stderr)] = "Error writing file")

\* C23 witness: the history log could not be read, and the export of a
\* session of two messages has still been written to standard output.
C23_Witness ==
    /\ xpc = "exited"
    /\ exit = "ok"
    /\ herr = "scan history"
    /\ Len(msgs) = 2
    /\ stdout = <<htmlStr>>
    /\ meta.MessageCount = 2 /\ meta.Project = EmptyStr

\* C24: the message count shown in the header of the document that the
\* export command writes is the number of message elements of the document.
C24_CountMatchesElements ==
    Written =>
      /\ meta.MessageCount = Len(msgs)
      /\ htmlStr.Header.messages = <<Len(htmlStr.Elements)>>

-----------------------------------------------------------------------------
(* The same log under other options *)

\* The option settings.
Options == [IncludeTools : BOOLEAN, IncludeThinking : BOOLEAN]

\* Who a returned entry is: the user line it stems from, or the identifier
\* of its group.
UserEntry(line) == [role |-> "user", line |-> line, id |-> "-"]
GroupEntry(id) == [role |-> "assistant", line |-> 0, id |-> id]

\* The entries of a sorted sequence r, the groups being those of groups.
WhoIs(r, groups) ==
    [k \in 1..Len(r) |->
       IF r[k].msg.Role = "user" THEN UserEntry(r[k].seq + 1)
       ELSE GroupEntry(CHOOSE id \in DOMAIN groups : groups[id].firstSeq = r[k].seq)]

\* The orders in which ParseSession can return the messages of the scanned
\* log under the options o.
OrdersUnder(o) ==
    LET st == scanAll(file, [userMsgs |-> <<>>, groups |-> NoGroups,
                             ids |-> <<>>, seq |-> 0], o)
    IN { WhoIs(r, st.groups) : r \in sortResults(mergeAll(st.userMsgs, st.ids, st.groups)) }

\* The order in which the messages have been returned.
ReturnedOrder == WhoIs(all, assistantGroups)

Present(ord) == { ord[k] : k \in 1..Len(ord) }

Pos(ord, x) == CHOOSE k \in 1..Len(ord) : ord[k] = x

\* Two orders agree on the entries of S.
SameOrderOn(S, a, b) ==
    \A x, y \in S : (Pos(a, x) < Pos(a, y)) <=> (Pos(b, x) < Pos(b, y))

\* The first line of identifier id that yields a block under the options o
\* (0 if there is none).
FirstLineUnder(id, o) ==
    LET yielding == { i \in 1..Len(file) :
                        /\ file[i].json /\ file[i].type = "assistant"
                        /\ file[i].message.shape = "ok"
                        /\ file[i].message.id = id
                        /\ Len(extractAssistantBlocks(file[i].message.content, o)) > 0 }
    IN IF yielding = {} THEN 0 ELSE Min(yielding)

\* The entries whose first producing line is the same under opts and o.
Stable(o) ==
    { x \in Present(ReturnedOrder) :
        x.role = "assistant" => FirstLineUnder(x.id, opts) = FirstLineUnder(x.id, o) }

\* C25 as stated: under any other option setting, the messages present in
\* both outputs are in the same relative order.
C25_OrderIndependentOfOptions ==
    Returned =>
      \A o \in Options : \A other \in OrdersUnder(o) :
        SameOrderOn(Present(ReturnedOrder) \cap Present(other), ReturnedOrder, other)

\* C25 as amended: under any other option setting, the messages present in
\* both outputs whose first producing line is the same under both settings
\* (every user message; a group unless its earlier lines yield blocks under
\* one setting only) are in the same relative order.
C25_OrderOfStableMessages ==
    Returned =>
      \A o \in Options : \A other \in OrdersUnder(o) :
        SameOrderOn(Stable(o) \cap Present(other), ReturnedOrder, other)

\* C25 witness: with both options on, a log has been returned as four
\* messages of which two, a user message and a group, remain with both
\* options off.
C25_Witness ==
    /\ Returned
    /\ opts = [IncludeTools |-> TRUE, IncludeThinking |-> TRUE]
    /\ Len(msgs) = 4
    /\ LET off == [IncludeTools |-> FALSE, IncludeThinking |-> FALSE] IN
       \E other \in OrdersUnder(off) :
         /\ Len(other) = 2
         /\ Present(other) \subseteq Stable(off)
         /\ \E x, y \in Present(other) : x.role = "user" /\ y.role = "assistant"

-----------------------------------------------------------------------------
(* Assistant lines without identifier *)

\* The block-yielding assistant lines whose payload has no identifier: a
\* missing "id" and an empty one both decode to the empty string.
NoIDLines ==
    { i \in 1..Len(file) :
        /\ file[i].json /\ file[i].type = "assistant"
        /\ file[i].message.shape = "ok"
        /\ file[i].message.id = ""
        /\ Len(AsstBlocksOf(file[i])) > 0 }

RECURSIVE BlocksOfLines(_, _)
\* The blocks of the lines n.. of the log that are in S, in file order.
BlocksOfLines(S, n) ==
    IF n > Len(file) THEN <<>>
    ELSE (IF n \in S THEN AsstBlocksOf(file[n]) ELSE <<>>) \o BlocksOfLines(S, n + 1)

\* C26: the block-yielding assistant lines without identifier share the one
\* group keyed by the empty string and are returned as one assistant
\* message, at the first of them, with the blocks of all of them, whatever
\* lines separate them.
C26_NoIdentifierLinesMerge ==
    NoIDLines # {} =>
      /\ pc \in {"scan", "done"} =>
           /\ "" \in DOMAIN assistantGroups
           /\ Cardinality({ k \in 1..Len(assistantIDs) : assistantIDs[k] = "" }) = 1
           /\ assistantGroups[""].blocks = BlocksOfLines(NoIDLines, 1)
      /\ Returned =>
           LET mine == { k \in 1..Len(all) :
                           /\ all[k].msg.Role = "assistant"
                           /\ all[k].seq + 1 \in NoIDLines }
           IN /\ Cardinality(mine) = 1
              /\ \A k \in mine :
                   /\ all[k].seq + 1 = Min(NoIDLines)
                   /\ msgs[k].Blocks = BlocksOfLines(NoIDLines, 1)
                   /\ msgs[k].Timestamp = file[Min(NoIDLines)].timestamp

\* C26 witness: two lines without identifier, separated by a user line and
\* a line of m1, have been returned as the first of three messages.
C26_Witness ==
    /\ Returned
    /\ Len(file) = 4
    /\ NoIDLines = {1, 4}
    /\ UserMsgOf(file[2]) # NoMsg
    /\ file[3].message.id = "m1" /\ Len(AsstBlocksOf(file[3])) > 0
    /\ RolesOf(msgs) = <<"assistant", "user", "assistant">>
    /\ Len(msgs[1].Blocks) = 2

-----------------------------------------------------------------------------
(* The merge step *)

\* The entries the merge step would sort if the scan ended now.
Merged == mergeAll(userMsgs, assistantIDs, assistantGroups)

\* The sort keys of a sequence of entries.
KeysOf(s) == [k \in 1..Len(s) |-> s[k].seq]

StrictlyIncreasing(s) == \A i, j \in 1..Len(s) : i < j => s[i] < s[j]

\* C27: wherever the scan ends, the entries to sort have pairwise distinct
\* keys, the user entries and the group entries are each in strictly
\* increasing key order, a line adds at most one entry, and the unstable
\* sort has exactly one possible result.
C27_DistinctSortKeys ==
    /\ [](pc = "scan" =>
            /\ \A i, j \in 1..Len(Merged) : i # j => Merged[i].seq # Merged[j].seq
            /\ StrictlyIncreasing(KeysOf(userMsgs))
            /\ StrictlyIncreasing(KeysOf(groupEntries(assistantIDs, assistantGroups)))
            /\ Cardinality(sortResults(Merged)) = 1)
    /\ [][file' # file =>
            Len(userMsgs') + Len(assistantIDs') <= Len(userMsgs) + Len(assistantIDs) + 1]_vars

\* C27 witness: four lines gave two user entries and two group entries
\* whose keys interleave, so that the merged entries are not yet in order.
C27_Witness ==
    /\ pc = "scan"
    /\ Len(file) = 4
    /\ KeysOf(Merged) = <<1, 3, 0, 2>>

\* s is an initial part of t.
IsPrefix(s, t) == Len(s) <= Len(t) /\ SubSeq(t, 1, Len(s)) = s

\* C28: after every line the first-seen list has no duplicates and lists
\* exactly the keys of the group map, every group holds at least one block,
\* so the test for empty groups after the scan filters nothing; the list
\* and each group's blocks only grow.
C28_GroupsNeverEmpty ==
    /\ [](/\ \A i, j \in 1..Len(assistantIDs) :
               i # j => assistantIDs[i] # assistantIDs[j]
          /\ { assistantIDs[k] : k \in 1..Len(assistantIDs) } = DOMAIN assistantGroups
          /\ \A id \in DOMAIN assistantGroups : Len(assistantGroups[id].blocks) >= 1
          /\ Len(groupEntries(assistantIDs, assistantGroups)) = Len(assistantIDs))
    /\ [][/\ IsPrefix(assistantIDs, assistantIDs')
          /\ \A id \in DOMAIN assistantGroups :
               /\ id \in DOMAIN assistantGroups'
               /\ IsPrefix(assistantGroups[id].blocks, assistantGroups'[id].blocks)]_vars

\* C28 witness: with includeTools off, a tool_use line of m1 came first and
\* created no group; two text lines of m1 and a line without identifier
\* then made two groups of two blocks and one.
C28_Witness ==
    /\ pc = "scan"
    /\ ~opts.IncludeTools
    /\ Len(file) = 4
    /\ file[1].message.id = "m1" /\ Len(AsstBlocksOf(file[1])) = 0
    /\ assistantIDs = <<"m1", "">>
    /\ Len(assistantGroups["m1"].blocks) = 2
    /\ Len(assistantGroups[""].blocks) = 1
====
